---- MODULE Spec2Model ----
(***************************************************************************)
(* boolify: the boolean wire graph (bool_wire.rs), the id allocator        *)
(* (id_generator.rs), the value wire layer (value_wire.rs), the Bristol    *)
(* serializer (generate_bristol.rs) and the evaluator (eval.rs).           *)
(*                                                                         *)
(* Rc<BoolWire> pointers are positions in the arena `wires`; a ValueWire   *)
(* is the sequence of its bits (pointers), bit 0 first.  Every operator    *)
(* that may create nodes takes the graph g = [wires, next_id] and returns  *)
(* the graph it leaves together with its result, in the order in which     *)
(* the Rust code evaluates its calls.                                      *)
(***************************************************************************)
EXTENDS Integers, Sequences, FiniteSets, TLC

\* ------------------------------------------------------------ bounds
MaxWidth == 3
MaxConst == 5
MaxCalls == 3
MaxGates == 1
MaxWires == 3

\* ------------------------------------------------------------ BoolData
NoId == -1
NoInput == [name |-> "", id_start |-> 0, size |-> 0]

ConstNode(v) == [tag |-> "Const", val |-> v, id |-> NoId, a |-> 0, b |-> 0, input |-> NoInput]
InputNode(id, ci) == [tag |-> "Input", val |-> FALSE, id |-> id, a |-> 0, b |-> 0, input |-> ci]
AndNode(id, x, y) == [tag |-> "And", val |-> FALSE, id |-> id, a |-> x, b |-> y, input |-> NoInput]
InvNode(id, x) == [tag |-> "Inv", val |-> FALSE, id |-> id, a |-> x, b |-> 0, input |-> NoInput]
XorNode(id, x, y) == [tag |-> "Xor", val |-> FALSE, id |-> id, a |-> x, b |-> y, input |-> NoInput]

\* The two constant nodes sit at fixed places of the arena.
ConstFalse == 1
ConstTrue == 2
Const(v) == IF v THEN ConstTrue ELSE ConstFalse

IsConst(g, w) == g.wires[w].tag = "Const"
IsConstFalse(g, w) == g.wires[w].tag = "Const" /\ ~g.wires[w].val
IsConstTrue(g, w) == g.wires[w].tag = "Const" /\ g.wires[w].val

\* BoolWire::id: None (NoId) for a constant.
BoolWire_id(g, w) == g.wires[w].id

\* Rc::new(BoolWire { .. }): a new node, at the end of the arena.
RcNew(g, node) ==
    [g |-> [g EXCEPT !.wires = Append(@, node)], w |-> Len(g.wires) + 1]

Keep(g, w) == [g |-> g, w |-> w]

\* let r = e; ...: the rest F of a block, run on the value r of the call e.
\* The call is made once, before the rest, as in the Rust code.
Bind(e, F(_)) == CHOOSE res \in {F(r) : r \in {e}} : TRUE

\* ------------------------------------------------------------ IdGenerator
IdGenerator_new == [wires |-> <<ConstNode(FALSE), ConstNode(TRUE)>>, next_id |-> 0]

gen(g) == [g |-> [g EXCEPT !.next_id = @ + 1], res |-> g.next_id]

peek(g) == g.next_id

\* ------------------------------------------------------------ BoolWire
inv_with_new_id(g, x) ==
    Bind(gen(g), LAMBDA i : RcNew(i.g, InvNode(i.res, x)))

\* inv without the match on Inv: a new node over every wire that is not a
\* constant.
inv_without_elimination(g, x) ==
    IF IsConst(g, x) THEN Keep(g, Const(~g.wires[x].val))
    ELSE inv_with_new_id(g, x)

inv(g, x) ==
    IF IsConst(g, x) THEN Keep(g, Const(~g.wires[x].val))
    ELSE IF g.wires[x].tag = "Inv" THEN Keep(g, g.wires[x].a)
    ELSE inv_with_new_id(g, x)

\* and without the matches on Const: always a new node.
and_without_simplification(g, x, y) ==
    Bind(gen(g), LAMBDA i : RcNew(i.g, AndNode(i.res, x, y)))

and(g, x, y) ==
    IF IsConstFalse(g, x) THEN Keep(g, x)
    ELSE IF IsConstTrue(g, x) THEN Keep(g, y)
    ELSE IF IsConstFalse(g, y) THEN Keep(g, y)
    ELSE IF IsConstTrue(g, y) THEN Keep(g, x)
    ELSE Bind(gen(g), LAMBDA i : RcNew(i.g, AndNode(i.res, x, y)))

or(g, x, y) ==
    IF IsConstTrue(g, x) THEN Keep(g, x)
    ELSE IF IsConstFalse(g, x) THEN Keep(g, y)
    ELSE IF IsConstTrue(g, y) THEN Keep(g, y)
    ELSE IF IsConstFalse(g, y) THEN Keep(g, x)
    ELSE Bind(gen(g), LAMBDA i :
         Bind(inv(i.g, x), LAMBDA nx :
         Bind(inv(nx.g, y), LAMBDA ny :
         Bind(and(ny.g, nx.w, ny.w), LAMBDA n :
             RcNew(n.g, InvNode(i.res, n.w))))))

xor(g, x, y) ==
    IF IsConstTrue(g, x) THEN inv(g, y)
    ELSE IF IsConstFalse(g, x) THEN Keep(g, y)
    ELSE IF IsConstTrue(g, y) THEN inv(g, x)
    ELSE IF IsConstFalse(g, y) THEN Keep(g, x)
    ELSE Bind(gen(g), LAMBDA i : RcNew(i.g, XorNode(i.res, x, y)))

copy_with_new_id(g, x) ==
    IF g.wires[x].tag = "Inv" THEN inv_with_new_id(g, g.wires[x].a)
    ELSE Bind(inv_with_new_id(g, x), LAMBDA n : inv_with_new_id(n.g, n.w))

\* BoolWire::as_value: the one-bit ValueWire of a wire.
as_value(w) == <<w>>

\* ------------------------------------------------------------ ValueWire
Max(x, y) == IF x >= y THEN x ELSE y

RECURSIVE Pow2(_)
Pow2(n) == IF n = 0 THEN 1 ELSE 2 * Pow2(n - 1)

\* A returned ValueWire, and a panic in its place.
Value(g, bits) == [g |-> g, bits |-> bits, panic |-> FALSE]
Panic(g) == [g |-> g, bits |-> <<>>, panic |-> TRUE]

\* The bits pushed by new_input's loop, n of them left to push.
RECURSIVE new_input_loop(_, _, _, _)
new_input_loop(g, ci, n, bits) ==
    IF n = 0 THEN Value(g, bits)
    ELSE Bind(gen(g), LAMBDA i :
         Bind(RcNew(i.g, InputNode(i.res, ci)), LAMBDA r :
             new_input_loop(r.g, ci, n - 1, Append(bits, r.w))))

\* new_input with the bit vector reversed after construction: the ids run
\* from the most significant bit down.
new_input_reversed(g, name, size) ==
    Bind(new_input_loop(g, [name |-> name, id_start |-> peek(g), size |-> size], size, <<>>),
         LAMBDA r : Value(r.g, [i \in 1..size |-> r.bits[size + 1 - i]]))

new_input(g, name, size) ==
    new_input_loop(g, [name |-> name, id_start |-> peek(g), size |-> size], size, <<>>)

RECURSIVE new_const_bits(_)
new_const_bits(value) ==
    IF value > 0 THEN <<Const(value % 2 = 1)>> \o new_const_bits(value \div 2)
    ELSE <<>>

new_const(g, value) == Value(g, new_const_bits(value))

\* at(index), index counted from 0.
at(bits, index) == IF index < Len(bits) THEN bits[index + 1] ELSE ConstFalse

\* One turn of add's loop, for bit i: [g, out, carry].
add_step(g, x, y, i, carry) ==
    Bind(xor(g, at(x, i), at(y, i)), LAMBDA sum :
    Bind(and(sum.g, at(x, i), at(y, i)), LAMBDA ab :
    Bind(and(ab.g, carry, sum.w), LAMBDA cs :
    Bind(xor(cs.g, ab.w, cs.w), LAMBDA new_carry :
    Bind(xor(new_carry.g, sum.w, carry), LAMBDA out :
        [g |-> out.g, out |-> out.w, carry |-> new_carry.w])))))

RECURSIVE add_loop(_, _, _, _, _, _, _)
add_loop(g, x, y, i, size, bits, carry) ==
    IF i >= size THEN Value(g, bits)
    ELSE Bind(add_step(g, x, y, i, carry), LAMBDA s :
             add_loop(s.g, x, y, i + 1, size, Append(bits, s.out), s.carry))

\* add with the carry out of bit 0 forgotten.
add_carry0_dropped(g, x, y) ==
    Bind(xor(g, at(x, 0), at(y, 0)), LAMBDA s0 :
        add_loop(s0.g, x, y, 1, Max(Len(x), Len(y)), <<s0.w>>, ConstFalse))

add(g, x, y) ==
    Bind(xor(g, at(x, 0), at(y, 0)), LAMBDA s0 :
    Bind(and(s0.g, at(x, 0), at(y, 0)), LAMBDA c0 :
        add_loop(c0.g, x, y, 1, Max(Len(x), Len(y)), <<s0.w>>, c0.w)))

\* as_usize: None unless every bit is a Const.
None == -1
UsizeBits == 64

RECURSIVE as_usize_loop(_, _, _, _)
as_usize_loop(g, bits, i, value) ==
    IF i >= Len(bits) THEN value
    ELSE IF ~IsConst(g, bits[i + 1]) THEN None
    ELSE as_usize_loop(g, bits, i + 1,
                       value + (IF g.wires[bits[i + 1]].val THEN Pow2(i) ELSE 0))

as_usize(g, bits) ==
    IF Len(bits) > UsizeBits THEN None ELSE as_usize_loop(g, bits, 0, 0)

RECURSIVE bit_not_loop(_, _, _, _)
bit_not_loop(g, x, i, bits) ==
    IF i >= Len(x) THEN Value(g, bits)
    ELSE Bind(inv(g, x[i + 1]), LAMBDA n :
             bit_not_loop(n.g, x, i + 1, Append(bits, n.w)))

bit_not(g, x) == bit_not_loop(g, x, 0, <<>>)

\* negate as the one's complement: the + 1 forgotten.
negate_ones_complement(g, x) == bit_not(g, x)

negate(g, x) ==
    Bind(bit_not(g, x), LAMBDA n :
    Bind(new_const(n.g, 1), LAMBDA one :
        add(one.g, n.bits, one.bits)))

resize(bits, size) ==
    IF size = Len(bits) THEN bits ELSE [i \in 1..size |-> at(bits, i - 1)]

sub(g, x, y) ==
    Bind(IF Len(y) < Len(x) THEN negate(g, resize(y, Len(x))) ELSE negate(g, y),
         LAMBDA neg_b : add(neg_b.g, x, neg_b.bits))

\* shift_up_const keeping the high bits of the value instead of the low ones.
shift_up_const_high_bits(bits, amount) ==
    IF amount >= Len(bits) THEN new_const_bits(0)
    ELSE [i \in 1..amount |-> ConstFalse] \o SubSeq(bits, amount + 1, Len(bits))

shift_up_const(bits, amount) ==
    IF amount >= Len(bits) THEN new_const_bits(0)
    ELSE [i \in 1..amount |-> ConstFalse] \o SubSeq(bits, 1, Len(bits) - amount)

\* shift_down_const without the Const(false) bits pushed at the top.
shift_down_const_unpadded(bits, amount) ==
    IF amount >= Len(bits) THEN new_const_bits(0)
    ELSE SubSeq(bits, amount + 1, Len(bits))

shift_down_const(bits, amount) ==
    IF amount >= Len(bits) THEN new_const_bits(0)
    ELSE SubSeq(bits, amount + 1, Len(bits)) \o [i \in 1..amount |-> ConstFalse]

RECURSIVE mul_bool_loop(_, _, _, _, _)
mul_bool_loop(g, w, y, i, bits) ==
    IF i >= Len(y) THEN Value(g, bits)
    ELSE Bind(and(g, w, y[i + 1]), LAMBDA n :
             mul_bool_loop(n.g, w, y, i + 1, Append(bits, n.w)))

mul_bool(g, w, y) == mul_bool_loop(g, w, y, 0, <<>>)

\* tree_sum over the list of ValueWires values.
RECURSIVE tree_sum(_, _)
tree_sum(g, values) ==
    IF Len(values) = 0 THEN new_const(g, 0)
    ELSE IF Len(values) = 1 THEN Value(g, values[1])
    ELSE Bind(tree_sum(g, SubSeq(values, 1, Len(values) \div 2)), LAMBDA left :
         Bind(tree_sum(left.g, SubSeq(values, Len(values) \div 2 + 1, Len(values))),
              LAMBDA right : add(right.g, left.bits, right.bits)))

\* The partial products of mul: [g, terms].
RECURSIVE mul_terms(_, _, _, _, _)
mul_terms(g, sm, lg, i, sum_terms) ==
    IF i >= Len(sm) THEN [g |-> g, terms |-> sum_terms]
    ELSE IF IsConstFalse(g, sm[i + 1]) THEN mul_terms(g, sm, lg, i + 1, sum_terms)
    ELSE Bind(mul_bool(g, sm[i + 1], shift_up_const(lg, i)), LAMBDA term :
             mul_terms(term.g, sm, lg, i + 1, Append(sum_terms, term.bits)))

\* mul without the choice of the smaller operand: a's bits times b, shifted.
mul_unswapped(g, x, y) ==
    Bind(mul_terms(g, x, y, 0, <<>>), LAMBDA t : tree_sum(t.g, t.terms))

mul(g, x, y) ==
    Bind(IF Len(x) <= Len(y) THEN mul_terms(g, x, y, 0, <<>>)
                             ELSE mul_terms(g, y, x, 0, <<>>),
         LAMBDA t : tree_sum(t.g, t.terms))

RECURSIVE exp(_, _, _)
\* exp with an odd exponent handled as the even one: the factor a forgotten.
exp_odd_as_even(g, x, y) ==
    Bind(as_usize(g, y), LAMBDA n :
        IF n = None THEN Panic(g)
        ELSE IF n = 0 THEN new_const(g, 1)
        ELSE IF n = 1 THEN Value(g, x)
        ELSE Bind(mul(g, x, x), LAMBDA half :
                 exp(half.g, half.bits, new_const_bits(n \div 2))))

exp(g, x, y) ==
    Bind(as_usize(g, y), LAMBDA n :
        IF n = None THEN Panic(g)
        ELSE IF n = 0 THEN new_const(g, 1)
        ELSE IF n = 1 THEN Value(g, x)
        ELSE IF n % 2 = 0
        THEN Bind(mul(g, x, x), LAMBDA half :
                 exp(half.g, half.bits, new_const_bits(n \div 2)))
        ELSE Bind(mul(g, x, x), LAMBDA half :
             Bind(exp(half.g, half.bits, new_const_bits((n - 1) \div 2)), LAMBDA reduced :
                 mul(reduced.g, x, reduced.bits))))

split_at(bits, split_point) ==
    IF Len(bits) <= split_point THEN [left |-> bits, right |-> new_const_bits(0)]
    ELSE [left |-> SubSeq(bits, 1, split_point),
          right |-> SubSeq(bits, split_point + 1, Len(bits))]

\* cmp on one bit: [g, eq, lt].
cmp_bit(g, x, y) ==
    Bind(xor(g, at(x, 0), at(y, 0)), LAMBDA x1 :
    Bind(inv(x1.g, x1.w), LAMBDA e :
    Bind(inv(e.g, at(x, 0)), LAMBDA na :
    Bind(and(na.g, na.w, at(y, 0)), LAMBDA l :
        [g |-> l.g, eq |-> e.w, lt |-> l.w]))))

\* cmp of the two halves c0 (low) and c1 (high) put together: [g, eq, lt].
cmp_join(c0, c1) ==
    Bind(and(c1.g, c0.eq, c1.eq), LAMBDA eq :
    Bind(and(eq.g, c1.eq, c0.lt), LAMBDA el :
    Bind(xor(el.g, c1.lt, el.w), LAMBDA lt :
        [g |-> lt.g, eq |-> eq.w, lt |-> lt.w])))

\* cmp: [g, eq, lt].
RECURSIVE cmp(_, _, _)
cmp(g, x, y) ==
    LET size == Max(Len(x), Len(y)) IN
    IF size = 0 THEN [g |-> g, eq |-> Const(FALSE), lt |-> Const(FALSE)]
    ELSE IF size = 1 THEN cmp_bit(g, x, y)
    ELSE Bind(cmp(g, split_at(x, size \div 2).left, split_at(y, size \div 2).left),
              LAMBDA c0 :
         Bind(cmp(c0.g, split_at(x, size \div 2).right, split_at(y, size \div 2).right),
              LAMBDA c1 : cmp_join(c0, c1)))

less_than(g, x, y) == Bind(cmp(g, x, y), LAMBDA r : [g |-> r.g, w |-> r.lt])

\* greater_than with its operands not swapped.
greater_than_unswapped(g, x, y) == less_than(g, x, y)

greater_than(g, x, y) == less_than(g, y, x)

\* less_than_or_eq as the strict comparison.
less_than_or_eq_strict(g, x, y) == less_than(g, x, y)

less_than_or_eq(g, x, y) == Bind(greater_than(g, x, y), LAMBDA r : inv(r.g, r.w))

greater_than_or_eq(g, x, y) == Bind(less_than(g, x, y), LAMBDA r : inv(r.g, r.w))

RECURSIVE equal(_, _, _)
equal(g, x, y) ==
    LET size == Max(Len(x), Len(y)) IN
    IF size = 0 THEN Keep(g, Const(TRUE))
    ELSE IF size = 1
    THEN Bind(xor(g, at(x, 0), at(y, 0)), LAMBDA x1 : inv(x1.g, x1.w))
    ELSE Bind(equal(g, split_at(x, size \div 2).left, split_at(y, size \div 2).left),
              LAMBDA eq0 :
         Bind(equal(eq0.g, split_at(x, size \div 2).right, split_at(y, size \div 2).right),
              LAMBDA eq1 : and(eq1.g, eq0.w, eq1.w)))

not_equal(g, x, y) == Bind(equal(g, x, y), LAMBDA r : inv(r.g, r.w))

\* to_bool reading bit 0 alone.
to_bool_bit0(g, x) ==
    IF Len(x) = 0 THEN Keep(g, Const(FALSE)) ELSE Keep(g, x[1])

RECURSIVE to_bool(_, _)
to_bool(g, x) ==
    IF Len(x) = 0 THEN Keep(g, Const(FALSE))
    ELSE IF Len(x) = 1 THEN Keep(g, x[1])
    ELSE Bind(to_bool(g, split_at(x, Len(x) \div 2).left), LAMBDA l :
         Bind(to_bool(l.g, split_at(x, Len(x) \div 2).right), LAMBDA r :
             or(r.g, l.w, r.w)))

bool_and(g, x, y) ==
    Bind(to_bool(g, x), LAMBDA l :
    Bind(to_bool(l.g, y), LAMBDA r :
        and(r.g, l.w, r.w)))

bool_or(g, x, y) ==
    Bind(to_bool(g, x), LAMBDA l :
    Bind(to_bool(l.g, y), LAMBDA r :
        or(r.g, l.w, r.w)))

bool_not(g, x) == Bind(to_bool(g, x), LAMBDA l : inv(l.g, l.w))

bool_xor(g, x, y) ==
    Bind(to_bool(g, x), LAMBDA l :
    Bind(to_bool(l.g, y), LAMBDA r :
        xor(r.g, l.w, r.w)))

RECURSIVE bit_and_loop(_, _, _, _, _, _)
bit_and_loop(g, x, y, i, size, bits) ==
    IF i >= size THEN Value(g, bits)
    ELSE Bind(and(g, at(x, i), at(y, i)), LAMBDA n :
             bit_and_loop(n.g, x, y, i + 1, size, Append(bits, n.w)))

bit_and(g, x, y) == bit_and_loop(g, x, y, 0, Max(Len(x), Len(y)), <<>>)

RECURSIVE bit_or_loop(_, _, _, _, _, _)
bit_or_loop(g, x, y, i, size, bits) ==
    IF i >= size THEN Value(g, bits)
    ELSE Bind(or(g, at(x, i), at(y, i)), LAMBDA n :
             bit_or_loop(n.g, x, y, i + 1, size, Append(bits, n.w)))

bit_or(g, x, y) == bit_or_loop(g, x, y, 0, Max(Len(x), Len(y)), <<>>)

RECURSIVE bit_xor_loop(_, _, _, _, _, _)
bit_xor_loop(g, x, y, i, size, bits) ==
    IF i >= size THEN Value(g, bits)
    ELSE Bind(xor(g, at(x, i), at(y, i)), LAMBDA n :
             bit_xor_loop(n.g, x, y, i + 1, size, Append(bits, n.w)))

\* bit_xor building the gates of bit_or.
bit_xor_as_or(g, x, y) == bit_or(g, x, y)

bit_xor(g, x, y) == bit_xor_loop(g, x, y, 0, Max(Len(x), Len(y)), <<>>)

bit_shl(g, x, y) ==
    Bind(as_usize(g, y), LAMBDA n :
        IF n = None THEN Panic(g) ELSE Value(g, shift_up_const(x, n)))

bit_shr(g, x, y) ==
    Bind(as_usize(g, y), LAMBDA n :
        IF n = None THEN Panic(g) ELSE Value(g, shift_down_const(x, n)))

\* shifts_valid with every shift taken as valid.
shifts_valid_all(g, y, size, i, valid) ==
    [g |-> g, valid |-> [k \in 1..Max(size, 1) |-> Const(TRUE)]]

\* shifts_valid of quotient_remainder: [g, valid], valid[i + 1] for shift i.
RECURSIVE shifts_valid_loop(_, _, _, _, _)
shifts_valid_loop(g, y, size, i, valid) ==
    IF i >= size THEN [g |-> g, valid |-> valid]
    ELSE Bind(inv(g, at(y, size - i)), LAMBDA nb :
         Bind(and(nb.g, valid[i], nb.w), LAMBDA v :
             shifts_valid_loop(v.g, y, size, i + 1, Append(valid, v.w))))

\* One turn of the division loop, for shift i: [g, apply, rem].
quotient_remainder_step(g, y, valid, i, rem) ==
    Bind(shift_up_const(y, i), LAMBDA shift_b :
    Bind(less_than_or_eq(g, shift_b, rem), LAMBDA le :
    Bind(and(le.g, valid, le.w), LAMBDA apply :
    Bind(sub(apply.g, rem, shift_b), LAMBDA apply_rem :
    Bind(mul_bool(apply_rem.g, apply.w, apply_rem.bits), LAMBDA m1 :
    Bind(inv(m1.g, apply.w), LAMBDA na :
    Bind(mul_bool(na.g, na.w, rem), LAMBDA m2 :
    Bind(bit_xor(m2.g, m1.bits, m2.bits), LAMBDA r :
        [g |-> r.g, apply |-> apply.w, rem |-> r.bits]))))))))

\* The division loop, i + 1 = the number of turns left: [g, quotient, rem].
RECURSIVE quotient_remainder_loop(_, _, _, _, _, _)
quotient_remainder_loop(g, y, valid, i, quotient, rem) ==
    IF i < 0 THEN [g |-> g, quotient |-> quotient, rem |-> rem]
    ELSE Bind(quotient_remainder_step(g, y, valid[i + 1], i, rem), LAMBDA s :
             quotient_remainder_loop(s.g, y, valid, i - 1,
                                     [quotient EXCEPT ![i + 1] = s.apply], s.rem))

quotient_remainder(g, x, y) ==
    Bind(Max(Len(x), Len(y)), LAMBDA size :
    Bind(resize(y, size), LAMBDA yr :
    Bind(shifts_valid_loop(g, yr, size, 1, <<Const(TRUE)>>), LAMBDA sv :
        quotient_remainder_loop(sv.g, yr, sv.valid, size - 1,
                                resize(new_const_bits(0), size), resize(x, size)))))

div(g, x, y) == Bind(quotient_remainder(g, x, y), LAMBDA r : Value(r.g, r.quotient))

mod_(g, x, y) == Bind(quotient_remainder(g, x, y), LAMBDA r : Value(r.g, r.rem))

\* ------------------------------------------------------------ generate_bristol
\* Option<usize> is the set of its value: {} for None.
\* A HashMap / BTreeMap is the function of its entries.
Put(f, k, v) == [x \in DOMAIN f \cup {k} |-> IF x = k THEN v ELSE f[x]]
Remove(f, k) == [x \in DOMAIN f \ {k} |-> f[x]]

\* usize::MAX, as the two's complement integer it is: the temporary output
\* ids usize::MAX, usize::MAX - 1, .. are the integers below 0.
UsizeMax == -1

\* BoolWire::not and BoolWire::copy, called by generate_bristol: the inverse
\* of a wire, and a wire of the same value under a new id.
not(g, x) == inv(g, x)
copy(g, x) == copy_with_new_id(g, x)

WireIdMapper_new ==
    [map |-> <<>>, next_id |-> 0, temp_output_map |-> <<>>, next_output_id |-> UsizeMax]

get_existing(m, old_id) ==
    IF old_id \in DOMAIN m.map THEN {m.map[old_id]}
    ELSE IF old_id \in DOMAIN m.temp_output_map THEN {m.temp_output_map[old_id]}
    ELSE {}

get(m, old_id) ==
    IF get_existing(m, old_id) # {}
    THEN [m |-> m, id |-> CHOOSE new_id \in get_existing(m, old_id) : TRUE]
    ELSE [m |-> [m EXCEPT !.next_id = @ + 1, !.map = Put(@, old_id, m.next_id)],
          id |-> m.next_id]

get_temp_output(m, old_id) ==
    IF get_existing(m, old_id) # {}
    THEN [m |-> m, id |-> CHOOSE new_id \in get_existing(m, old_id) : TRUE]
    ELSE [m |-> [m EXCEPT !.next_output_id = @ - 1,
                          !.temp_output_map = Put(@, old_id, m.next_output_id)],
          id |-> m.next_output_id]

\* The nodes collect_inputs visits from the nodes of marked, among the nodes
\* lo..hi of the arena, a node's children lying before it.
RECURSIVE collect_inputs_visit(_, _, _, _)
collect_inputs_visit(g, lo, hi, marked) ==
    IF lo > hi THEN marked
    ELSE IF lo = hi
    THEN IF lo \in marked
         THEN marked \cup {k \in {g.wires[lo].a, g.wires[lo].b} \ {0} : ~IsConst(g, k)}
         ELSE marked
    ELSE Bind(collect_inputs_visit(g, (lo + hi) \div 2 + 1, hi, marked), LAMBDA upper :
             collect_inputs_visit(g, lo, (lo + hi) \div 2, upper))

\* inputs after the calls of collect_inputs on the bits: the CircuitInputs of
\* the Input nodes below them.
collect_inputs(g, bits) ==
    Bind(collect_inputs_visit(g, 1, Len(g.wires),
                              {bits[j] : j \in {i \in 1..Len(bits) : ~IsConst(g, bits[i])}}),
         LAMBDA visited :
             {g.wires[k].input : k \in {v \in visited : g.wires[v].tag = "Input"}})

\* inputs.values(): the entries of the BTreeMap in the order of their keys,
\* id_start.
RECURSIVE values(_)
values(inputs) ==
    IF inputs = {} THEN <<>>
    ELSE Bind(CHOOSE x \in inputs : \A y \in inputs : x.id_start <= y.id_start,
              LAMBDA first : <<first>> \o values(inputs \ {first}))

\* wire_id_mapper.get(id) for each id of ids, in order.
RECURSIVE get_all(_, _)
get_all(m, ids) ==
    IF ids = <<>> THEN m
    ELSE Bind(get(m, Head(ids)), LAMBDA r : get_all(r.m, Tail(ids)))

\* The ids id_start + i of the bits of the inputs, in the order of lines 27-31.
RECURSIVE input_ids(_)
input_ids(ins) ==
    IF ins = <<>> THEN <<>>
    ELSE [i \in 1..Head(ins).size |-> Head(ins).id_start + i - 1] \o input_ids(Tail(ins))

\* The turn without the copy of lines 65-71.
prepare_bit_without_copy(p, bit, special_false, special_true) ==
    Bind(IF IsConstTrue(p.g, bit) THEN special_true
         ELSE IF IsConstFalse(p.g, bit) THEN special_false
         ELSE bit, LAMBDA bit1 :
    Bind(get_temp_output(p.m, BoolWire_id(p.g, bit1)), LAMBDA t :
        [g |-> p.g, m |-> t.m, bits |-> Append(p.bits, bit1)]))

\* One turn of the loop over the bits of an output (lines 49-74), on
\* p = [g, m, bits]: the bit, replaced by a special wire when it is a
\* constant and by a copy when its id is known to the mapper, gets a
\* temporary output id.
prepare_bit(p, bit, special_false, special_true) ==
    Bind(IF IsConstTrue(p.g, bit) THEN special_true
         ELSE IF IsConstFalse(p.g, bit) THEN special_false
         ELSE bit, LAMBDA bit1 :
    Bind(IF get_existing(p.m, BoolWire_id(p.g, bit1)) # {}
         THEN copy(p.g, bit1)
         ELSE Keep(p.g, bit1), LAMBDA bit2 :
    Bind(get_temp_output(p.m, BoolWire_id(bit2.g, bit2.w)), LAMBDA t :
        [g |-> bit2.g, m |-> t.m, bits |-> Append(p.bits, bit2.w)])))

RECURSIVE prepare_bits(_, _, _, _)
prepare_bits(p, bits, special_false, special_true) ==
    IF bits = <<>> THEN p
    ELSE Bind(prepare_bit(p, Head(bits), special_false, special_true), LAMBDA q :
             prepare_bits(q, Tail(bits), special_false, special_true))

\* A Gate of the bristol_circuit crate.
Gate(op_, inputs, outputs) == [op |-> op_, inputs |-> inputs, outputs |-> outputs]

\* The state of the calls of generate_gates: the gates pushed, the mapper,
\* generated_ids, the stack of (node, visited_flag) and the message of a
\* panic ("" while there is none).
GatesState(m) ==
    [gates |-> <<>>, m |-> m, generated_ids |-> {}, stack |-> <<>>, panic |-> ""]

\* if let Some(id) = x.id() { if generated_ids.insert(id) { stack.push((x, false)) } }
push_new(g, s, x) ==
    IF IsConst(g, x) \/ BoolWire_id(g, x) \in s.generated_ids THEN s
    ELSE [s EXCEPT !.generated_ids = @ \cup {BoolWire_id(g, x)},
                   !.stack = Append(@, [bit |-> x, visited |-> FALSE])]

\* The visited arm (lines 276-313): the gate of the node bit is pushed, its
\* wires numbered by the mapper in the order a, b, out.
emit_gate(g, s, bit) ==
    IF g.wires[bit].tag = "Input" THEN s
    ELSE IF g.wires[bit].tag = "Const"
    THEN [s EXCEPT !.panic = "Const should not be in the middle of the circuit"]
    ELSE IF g.wires[bit].tag = "Inv"
    THEN IF IsConst(g, g.wires[bit].a)
         THEN [s EXCEPT !.panic = "Input should have an id"]
         ELSE Bind(get(s.m, BoolWire_id(g, g.wires[bit].a)), LAMBDA a_id :
              Bind(get(a_id.m, BoolWire_id(g, bit)), LAMBDA out_id :
                  [s EXCEPT !.m = out_id.m,
                            !.gates = Append(@, Gate("NOT", <<a_id.id>>, <<out_id.id>>))]))
    ELSE IF IsConst(g, g.wires[bit].a) \/ IsConst(g, g.wires[bit].b)
         THEN [s EXCEPT !.panic = "Input should have an id"]
         ELSE Bind(get(s.m, BoolWire_id(g, g.wires[bit].a)), LAMBDA a_id :
              Bind(get(a_id.m, BoolWire_id(g, g.wires[bit].b)), LAMBDA b_id :
              Bind(get(b_id.m, BoolWire_id(g, bit)), LAMBDA out_id :
                  [s EXCEPT !.m = out_id.m,
                            !.gates = Append(@, Gate(IF g.wires[bit].tag = "And"
                                                     THEN "AND" ELSE "XOR",
                                                     <<a_id.id, b_id.id>>, <<out_id.id>>))])))

\* The other arm (lines 314-344): the node goes back on the stack as visited,
\* under its children, b pushed before a.
push_children(g, s, bit) ==
    Bind([s EXCEPT !.stack = Append(@, [bit |-> bit, visited |-> TRUE])], LAMBDA s1 :
        IF g.wires[bit].tag = "Input" THEN s1
        ELSE IF g.wires[bit].tag = "Const"
        THEN [s1 EXCEPT !.panic = "Const should not be in the middle of the circuit"]
        ELSE IF g.wires[bit].tag = "Inv" THEN push_new(g, s1, g.wires[bit].a)
        ELSE Bind(push_new(g, s1, g.wires[bit].b), LAMBDA s2 :
                 push_new(g, s2, g.wires[bit].a)))

\* One turn of while let Some((bit, visited)) = stack.pop().
generate_gates_step(g, s) ==
    Bind(s.stack[Len(s.stack)], LAMBDA top :
    Bind([s EXCEPT !.stack = SubSeq(@, 1, Len(@) - 1)], LAMBDA popped :
        IF top.visited THEN emit_gate(g, popped, top.bit)
        ELSE push_children(g, popped, top.bit)))

\* At most n turns of the loop, which ends when the stack is empty.
RECURSIVE generate_gates_loop(_, _, _)
generate_gates_loop(g, s, n) ==
    IF s.stack = <<>> \/ s.panic # "" \/ n = 0 THEN s
    ELSE IF n = 1 THEN generate_gates_step(g, s)
    ELSE Bind(generate_gates_loop(g, s, n \div 2), LAMBDA half :
             generate_gates_loop(g, half, n - n \div 2))

\* A node is pushed once and popped twice: 2 * Len(g.wires) turns suffice.
generate_gates(g, s, start) ==
    IF s.panic # "" THEN s
    ELSE generate_gates_loop(g, push_new(g, s, start), 2 * Len(g.wires))

RECURSIVE generate_gates_all(_, _, _)
generate_gates_all(g, s, bits) ==
    IF bits = <<>> THEN s
    ELSE Bind(generate_gates(g, s, Head(bits)), LAMBDA s1 :
             generate_gates_all(g, s1, Tail(bits)))

\* The first loop of finalize_outputs (lines 229-239), turns i..n-1, on
\* f = [m, update_map, panic]; rev is temp_output_map_rev.
RECURSIVE finalize_outputs_loop(_, _, _, _)
finalize_outputs_loop(f, rev, i, n) ==
    IF i >= n \/ f.panic # "" THEN f
    ELSE IF UsizeMax - i \notin DOMAIN rev
    THEN [f EXCEPT !.panic = "Output should exist"]
    ELSE IF rev[UsizeMax - i] \in DOMAIN f.m.map
    THEN [f EXCEPT !.panic = "assertion failed: self.map.get(old_id).is_none()"]
    ELSE Bind(get([f.m EXCEPT !.temp_output_map = Remove(@, rev[UsizeMax - i])],
                  rev[UsizeMax - i]), LAMBDA proper_id :
             finalize_outputs_loop(
                 [f EXCEPT !.m = proper_id.m,
                           !.update_map = Put(@, UsizeMax - i, proper_id.id)],
                 rev, i + 1, n))

\* The second loop (lines 241-253): the temporary ids of the gates replaced.
update_ids(update_map, ids) ==
    [k \in 1..Len(ids) |->
        IF ids[k] \in DOMAIN update_map THEN update_map[ids[k]] ELSE ids[k]]

finalize_outputs(m, gates) ==
    Bind(finalize_outputs_loop(
             [m |-> m, update_map |-> <<>>, panic |-> ""],
             [t \in {m.temp_output_map[o] : o \in DOMAIN m.temp_output_map} |->
                 CHOOSE o \in DOMAIN m.temp_output_map : m.temp_output_map[o] = t],
             0, Cardinality(DOMAIN m.temp_output_map)), LAMBDA f :
        [m |-> f.m, panic |-> f.panic,
         gates |-> [k \in 1..Len(gates) |->
                       Gate(gates[k].op, update_ids(f.update_map, gates[k].inputs),
                            update_ids(f.update_map, gates[k].outputs))]])

\* A BristolCircuit (with its CircuitInfo and io_widths), and a panic of
\* generate_bristol in its place; bits are the output bits as generate_bristol
\* left them and map is wire_id_mapper.map at the end.
NoCircuit ==
    [panic |-> "none", wire_count |-> 0, gates |-> <<>>,
     input_name_to_wire_index |-> <<>>, output_name_to_wire_index |-> <<>>,
     input_widths |-> <<>>, output_widths |-> <<>>, bits |-> <<>>, map |-> <<>>]

BristolPanic(g, message) == [g |-> g, circuit |-> [NoCircuit EXCEPT !.panic = message]]

\* The last input of that name: a later insert of a HashMap replaces.
last_named(ins, n) ==
    CHOOSE k \in 1..Len(ins) :
        ins[k].name = n /\ \A j \in (k + 1)..Len(ins) : ins[j].name # n

\* Lines 77-133, for the one output name whose bits were prepared as p.bits.
generate_bristol_gates(p, ins, name) ==
    Bind(generate_gates_all(p.g, GatesState(p.m), p.bits), LAMBDA s :
    IF s.panic # "" THEN BristolPanic(p.g, s.panic)
    ELSE Bind(finalize_outputs(s.m, s.gates), LAMBDA f :
    IF f.panic # "" THEN BristolPanic(p.g, f.panic)
    ELSE IF \E k \in 1..Len(ins) : get_existing(f.m, ins[k].id_start) = {}
    THEN BristolPanic(p.g, "Input should have an id")
    ELSE IF p.bits = <<>> THEN BristolPanic(p.g, "Output should have bits")
    ELSE IF get_existing(f.m, BoolWire_id(p.g, p.bits[1])) = {}
    THEN BristolPanic(p.g, "Output should have an id")
    ELSE [g |-> p.g,
          circuit |->
              [panic |-> "",
               wire_count |-> Cardinality(DOMAIN f.m.map),
               gates |-> f.gates,
               input_name_to_wire_index |->
                   [n \in {ins[k].name : k \in 1..Len(ins)} |->
                       CHOOSE id \in get_existing(f.m, ins[last_named(ins, n)].id_start) : TRUE],
               output_name_to_wire_index |->
                   [n \in {name} |->
                       CHOOSE id \in get_existing(f.m, BoolWire_id(p.g, p.bits[1])) : TRUE],
               input_widths |-> [k \in 1..Len(ins) |-> ins[k].size],
               output_widths |-> <<Len(p.bits)>>,
               bits |-> p.bits,
               map |-> f.m.map]]))

\* generate_bristol(&vec![CircuitOutput::new(name, value)]) on the graph g.
generate_bristol(g, name, value) ==
    Bind(values(collect_inputs(g, value)), LAMBDA ins :
    Bind(get_all(WireIdMapper_new, input_ids(ins)), LAMBDA m :
    IF ins = <<>> THEN BristolPanic(g, "error: no inputs")
    ELSE Bind(RcNew(g, InputNode(ins[1].id_start, ins[1])), LAMBDA first_wire :
         Bind(xor(first_wire.g, first_wire.w, first_wire.w), LAMBDA special_false :
         Bind(not(special_false.g, special_false.w), LAMBDA special_true :
         Bind(prepare_bits([g |-> special_true.g, m |-> m, bits |-> <<>>], value,
                           special_false.w, special_true.w), LAMBDA p :
             generate_bristol_gates(p, ins, name)))))))

\* ------------------------------------------------------------ state
\* wires, next_id: the wire graph and the IdGenerator's counter; a, b: the
\* operands; c: the ValueWire of operation op; panic: op panicked; call: the
\* last call of a BoolWire constructor made directly; bristol: the circuit
\* generate_bristol returned for the output c; evaluated: the inputs and the
\* result of eval on the circuit.
VARIABLES wires, next_id, a, b, c, op, panic, stage, call, bristol, evaluated
vars == <<wires, next_id, a, b, c, op, panic, stage, call, bristol, evaluated>>

G == [wires |-> wires, next_id |-> next_id]

\* No constructor was called directly yet.
NoCall == [name |-> "none", x |-> 0, y |-> 0, w |-> 0, before |-> G, count |-> 0]

\* eval was not called yet.
NotEvaluated == [inputs |-> <<>>, wires |-> <<>>, outputs |-> <<>>, panic |-> "none"]

Init ==
    /\ wires = IdGenerator_new.wires
    /\ next_id = IdGenerator_new.next_id
    /\ a = <<>>
    /\ b = <<>>
    /\ c = <<>>
    /\ op = "none"
    /\ panic = FALSE
    /\ stage = "a"
    /\ call = NoCall
    /\ bristol = NoCircuit
    /\ evaluated = NotEvaluated

\* The next operand, a or b, becomes the ValueWire of the call e.
Operand(e) ==
    /\ \E r \in {e} :
           /\ wires' = r.g.wires
           /\ next_id' = r.g.next_id
           /\ IF stage = "a"
              THEN a' = r.bits /\ stage' = "b" /\ UNCHANGED b
              ELSE b' = r.bits /\ stage' = "op" /\ UNCHANGED a
    /\ UNCHANGED <<c, op, panic, call, bristol, evaluated>>

NewInput ==
    /\ stage \in {"a", "b"}
    /\ \E size \in 0..MaxWidth : Operand(new_input(G, stage, size))

NewConst ==
    /\ stage \in {"a", "b"}
    /\ \E value \in 0..MaxConst : Operand(new_const(G, value))

\* b := a.clone(): both operands are the same ValueWire.
Clone ==
    /\ stage = "b"
    /\ b' = a
    /\ stage' = "op"
    /\ UNCHANGED <<wires, next_id, a, c, op, panic, call, bristol, evaluated>>

\* c := the ValueWire of operation name, e the call of it.
Result(name, e) ==
    /\ stage = "op"
    /\ \E r \in {e} :
           /\ wires' = r.g.wires
           /\ next_id' = r.g.next_id
           /\ c' = r.bits
           /\ panic' = r.panic
    /\ op' = name
    /\ stage' = "done"
    /\ UNCHANGED <<a, b, call, bristol, evaluated>>

\* c := the one-bit ValueWire of the wire of operation name, e the call of it.
BoolResult(name, e) == Result(name, Bind(e, LAMBDA r : Value(r.g, as_value(r.w))))

Add == Result("add", add(G, a, b))
Sub == Result("sub", sub(G, a, b))
Negate == Result("negate", negate(G, a))
Mul == Result("mul", mul(G, a, b))
Exp == Result("exp", exp(G, a, b))
Div == Result("div", div(G, a, b))
Mod == Result("mod_", mod_(G, a, b))
BitNot == Result("bit_not", bit_not(G, a))
BitAnd == Result("bit_and", bit_and(G, a, b))
BitOr == Result("bit_or", bit_or(G, a, b))
BitXor == Result("bit_xor", bit_xor(G, a, b))
BitShl == Result("bit_shl", bit_shl(G, a, b))
BitShr == Result("bit_shr", bit_shr(G, a, b))
Equal == BoolResult("equal", equal(G, a, b))
NotEqual == BoolResult("not_equal", not_equal(G, a, b))
LessThan == BoolResult("less_than", less_than(G, a, b))
GreaterThan == BoolResult("greater_than", greater_than(G, a, b))
LessThanOrEq == BoolResult("less_than_or_eq", less_than_or_eq(G, a, b))
GreaterThanOrEq == BoolResult("greater_than_or_eq", greater_than_or_eq(G, a, b))
ToBool == BoolResult("to_bool", to_bool(G, a))
BoolAnd == BoolResult("bool_and", bool_and(G, a, b))
BoolOr == BoolResult("bool_or", bool_or(G, a, b))
BoolXor == BoolResult("bool_xor", bool_xor(G, a, b))
BoolNot == BoolResult("bool_not", bool_not(G, a))

Next ==
    \/ NewInput
    \/ NewConst
    \/ Clone
    \/ Add
    \/ Sub
    \/ Negate
    \/ Mul
    \/ Exp
    \/ Div
    \/ Mod
    \/ BitNot
    \/ BitAnd
    \/ BitOr
    \/ BitXor
    \/ BitShl
    \/ BitShr
    \/ Equal
    \/ NotEqual
    \/ LessThan
    \/ GreaterThan
    \/ LessThanOrEq
    \/ GreaterThanOrEq
    \/ ToBool
    \/ BoolAnd
    \/ BoolOr
    \/ BoolXor
    \/ BoolNot

Spec == Init /\ [][Next]_vars

\* ------------------------------------------------------------ constructors
\* The BoolWire constructors called directly, on any wires made so far, on
\* one IdGenerator: call records the constructor, its operands x and y, the
\* wire w it returned and the graph before the call.
InitWire ==
    /\ wires = IdGenerator_new.wires
    /\ next_id = IdGenerator_new.next_id
    /\ a = <<>>
    /\ b = <<>>
    /\ c = <<>>
    /\ op = "none"
    /\ panic = FALSE
    /\ stage = "wire"
    /\ call = NoCall
    /\ bristol = NoCircuit
    /\ evaluated = NotEvaluated

\* The constructor name is called on x (and y), e the call of it.
Call(name, x, y, e) ==
    /\ stage = "wire"
    /\ call.count < MaxCalls
    /\ \E r \in {e} :
           /\ wires' = r.g.wires
           /\ next_id' = r.g.next_id
           /\ call' = [name |-> name, x |-> x, y |-> y, w |-> r.w,
                       before |-> G, count |-> call.count + 1]
    /\ UNCHANGED <<a, b, c, op, panic, stage, bristol, evaluated>>

\* ValueWire::new_input of one bit; w is that bit.
WireNewInput ==
    Call("new_input", 0, 0,
         Bind(new_input(G, "a", 1), LAMBDA r : Keep(r.g, r.bits[1])))

WireAnd == \E x, y \in 1..Len(wires) : Call("and", x, y, and(G, x, y))
WireOr == \E x, y \in 1..Len(wires) : Call("or", x, y, or(G, x, y))
WireXor == \E x, y \in 1..Len(wires) : Call("xor", x, y, xor(G, x, y))
WireInv == \E x \in 1..Len(wires) : Call("inv", x, 0, inv(G, x))
WireInvWithNewId ==
    \E x \in 1..Len(wires) : Call("inv_with_new_id", x, 0, inv_with_new_id(G, x))
WireCopyWithNewId ==
    \E x \in 1..Len(wires) : Call("copy_with_new_id", x, 0, copy_with_new_id(G, x))

NextWire ==
    \/ WireNewInput
    \/ WireAnd
    \/ WireOr
    \/ WireXor
    \/ WireInv
    \/ WireInvWithNewId
    \/ WireCopyWithNewId

SpecWire == InitWire /\ [][NextWire]_vars

\* ------------------------------------------------------------ semantics
\* The size of the named input (0 when no such input was created).
InputSize(name) ==
    LET s == {wires[i].input.size :
                i \in {j \in 1..Len(wires) :
                         wires[j].tag = "Input" /\ wires[j].input.name = name}}
    IN IF s = {} THEN 0 ELSE CHOOSE x \in s : TRUE

\* The assignments of the named inputs within their widths.
Envs == [a : 0..(Pow2(InputSize("a")) - 1), b : 0..(Pow2(InputSize("b")) - 1)]

\* Bit i of the unsigned integer v.
BitOf(v, i) == (v \div Pow2(i)) % 2 = 1

\* The value a node takes, given the values vals of the nodes before it: a
\* constant is itself, the wire id_start + j of an input of width size is bit
\* size - j - 1 of the assigned integer, as eval lays it out, and And, Xor,
\* Inv are the gates of eval.
NodeValue(n, env, vals) ==
    CASE n.tag = "Const" -> n.val
      [] n.tag = "Input" ->
            BitOf(env[n.input.name], n.input.size - (n.id - n.input.id_start) - 1)
      [] n.tag = "And" -> vals[n.a] /\ vals[n.b]
      [] n.tag = "Xor" -> vals[n.a] # vals[n.b]
      [] n.tag = "Inv" -> ~vals[n.a]

\* vals, the values of the nodes before lo, extended by those of nodes lo..hi.
RECURSIVE WireValuesFrom(_, _, _, _, _)
WireValuesFrom(ws, env, lo, hi, vals) ==
    IF Len(vals) >= hi \/ lo > hi THEN vals
    ELSE IF lo = hi THEN Append(vals, NodeValue(ws[lo], env, vals))
    ELSE LET mid == (lo + hi) \div 2
         IN WireValuesFrom(ws, env, mid + 1, hi, WireValuesFrom(ws, env, lo, mid, vals))

\* The value of every wire of the graph under the assignment env.
WireValues(env) == WireValuesFrom(wires, env, 1, Len(wires), <<>>)

\* The unsigned integer of a ValueWire, bit 0 least significant.
RECURSIVE Num(_, _)
Num(bits, vals) ==
    IF Len(bits) = 0 THEN 0
    ELSE (IF vals[bits[1]] THEN 1 ELSE 0) + 2 * Num(Tail(bits), vals)

Done(name) == stage = "done" /\ op = name /\ ~panic

W == Max(Len(a), Len(b))

\* ------------------------------------------------------------ claims

\* ------------------------------------------------------------ eval
\* The names of a name_to_wire_index map, sorted by wire index.
RECURSIVE sort_by_wire_index(_)
sort_by_wire_index(index) ==
    IF DOMAIN index = {} THEN <<>>
    ELSE Bind(CHOOSE n \in DOMAIN index : \A k \in DOMAIN index : index[n] <= index[k],
              LAMBDA first : <<first>> \o sort_by_wire_index(Remove(index, first)))

EvalPanic(e, message) == [e EXCEPT !.panic = message]

\* One turn of the loop over the inputs (lines 23-34): wire id_start + j
\* takes bit width - j - 1 of the value.
eval_input(e, inputs, name, id_start, width) ==
    IF e.panic # "" THEN e
    ELSE IF name \notin DOMAIN inputs THEN EvalPanic(e, "missing input value")
    ELSE IF inputs[name] \div Pow2(width) # 0 THEN EvalPanic(e, "input value too large")
    ELSE IF \E j \in 0..(width - 1) : id_start + j \notin DOMAIN e.wires
    THEN EvalPanic(e, "index out of bounds")
    ELSE [e EXCEPT !.wires =
             [w \in DOMAIN @ |->
                 IF w \in id_start..(id_start + width - 1)
                 THEN BitOf(inputs[name], width - (w - id_start) - 1)
                 ELSE @[w]]]

RECURSIVE eval_inputs(_, _, _, _, _)
eval_inputs(circuit, inputs, sorted_inputs, e, i) ==
    IF i > Len(sorted_inputs) THEN e
    ELSE Bind(eval_input(e, inputs, sorted_inputs[i],
                         circuit.input_name_to_wire_index[sorted_inputs[i]],
                         circuit.input_widths[i]), LAMBDA e1 :
             eval_inputs(circuit, inputs, sorted_inputs, e1, i + 1))

\* One turn of the loop over the gates (lines 36-75).
eval_gate(e, gate) ==
    IF e.panic # "" THEN e
    ELSE IF gate.op \in {"AND", "OR", "XOR"}
    THEN IF Len(gate.inputs) < 2 \/ Len(gate.outputs) < 1
            \/ \E w \in {gate.inputs[k] : k \in 1..2} \cup {gate.outputs[k] : k \in 1..1} :
                   w \notin DOMAIN e.wires
         THEN EvalPanic(e, "index out of bounds")
         ELSE [e EXCEPT !.wires[gate.outputs[1]] =
                  CASE gate.op = "AND" -> e.wires[gate.inputs[1]] /\ e.wires[gate.inputs[2]]
                    [] gate.op = "OR" -> e.wires[gate.inputs[1]] \/ e.wires[gate.inputs[2]]
                    [] gate.op = "XOR" -> e.wires[gate.inputs[1]] # e.wires[gate.inputs[2]]]
    ELSE IF gate.op \in {"NOT", "COPY"}
    THEN IF Len(gate.inputs) < 1 \/ Len(gate.outputs) < 1
            \/ gate.inputs[1] \notin DOMAIN e.wires \/ gate.outputs[1] \notin DOMAIN e.wires
         THEN EvalPanic(e, "index out of bounds")
         ELSE [e EXCEPT !.wires[gate.outputs[1]] =
                  IF gate.op = "NOT" THEN ~e.wires[gate.inputs[1]]
                  ELSE e.wires[gate.inputs[1]]]
    ELSE EvalPanic(e, "unknown gate operation")

\* The gates lo..hi, in order.
RECURSIVE eval_gates(_, _, _, _)
eval_gates(gates, e, lo, hi) ==
    IF lo > hi \/ e.panic # "" THEN e
    ELSE IF lo = hi THEN eval_gate(e, gates[lo])
    ELSE Bind(eval_gates(gates, e, lo, (lo + hi) \div 2), LAMBDA lower :
             eval_gates(gates, lower, (lo + hi) \div 2 + 1, hi))

\* value |= (wires[id_start + j] as usize) << (width - j - 1), for j < width.
RECURSIVE eval_output_value(_, _, _, _)
eval_output_value(wires_, id_start, width, j) ==
    IF j >= width THEN 0
    ELSE (IF wires_[id_start + j] THEN Pow2(width - j - 1) ELSE 0)
         + eval_output_value(wires_, id_start, width, j + 1)

\* One turn of the loop over the outputs (lines 89-100).
eval_output(e, name, id_start, width) ==
    IF e.panic # "" THEN e
    ELSE IF \E j \in 0..(width - 1) : id_start + j \notin DOMAIN e.wires
    THEN EvalPanic(e, "index out of bounds")
    ELSE [e EXCEPT !.outputs = Put(@, name, eval_output_value(e.wires, id_start, width, 0))]

RECURSIVE eval_outputs(_, _, _, _)
eval_outputs(circuit, sorted_outputs, e, i) ==
    IF i > Len(sorted_outputs) THEN e
    ELSE Bind(eval_output(e, sorted_outputs[i],
                          circuit.output_name_to_wire_index[sorted_outputs[i]],
                          circuit.output_widths[i]), LAMBDA e1 :
             eval_outputs(circuit, sorted_outputs, e1, i + 1))

\* eval(circuit, inputs): [wires, outputs, panic], panic the message of a
\* panic ("" when eval returns), outputs the map returned, wires the local
\* wires at the end.
eval(circuit, inputs) ==
    Bind([wires |-> [w \in 0..(circuit.wire_count - 1) |-> FALSE],
          outputs |-> <<>>, panic |-> ""], LAMBDA e0 :
    IF Cardinality(DOMAIN circuit.input_name_to_wire_index) # Len(circuit.input_widths)
    THEN EvalPanic(e0, "assertion failed: sorted_inputs.len() == input_widths.len()")
    ELSE Bind(eval_inputs(circuit, inputs,
                          sort_by_wire_index(circuit.input_name_to_wire_index), e0, 1),
              LAMBDA e1 :
         Bind(eval_gates(circuit.gates, e1, 1, Len(circuit.gates)), LAMBDA e2 :
         IF e2.panic # "" THEN e2
         ELSE IF Cardinality(DOMAIN circuit.output_name_to_wire_index)
                    # Len(circuit.output_widths)
         THEN EvalPanic(e2, "assertion failed: sorted_outputs.len() == output_widths.len()")
         ELSE eval_outputs(circuit, sort_by_wire_index(circuit.output_name_to_wire_index),
                           e2, 1))))

\* ------------------------------------------------------------ the pipeline
\* The translator's operations, then generate_bristol on the output c, then
\* eval of the circuit on inputs.
GenerateBristol ==
    /\ stage = "done"
    /\ ~panic
    /\ \E r \in {generate_bristol(G, "c", c)} :
           /\ wires' = r.g.wires
           /\ next_id' = r.g.next_id
           /\ bristol' = r.circuit
    /\ stage' = "generated"
    /\ UNCHANGED <<a, b, c, op, panic, call, evaluated>>

\* The HashMaps eval may be given: a value for some of the names.
InputMaps(names) == UNION {[some -> 0..(Pow2(MaxWidth) - 1)] : some \in SUBSET names}

Eval ==
    /\ stage = "generated"
    /\ bristol.panic = ""
    /\ \E inputs \in InputMaps(DOMAIN bristol.input_name_to_wire_index) :
           \E r \in {eval(bristol, inputs)} :
               evaluated' = [inputs |-> inputs, wires |-> r.wires,
                             outputs |-> r.outputs, panic |-> r.panic]
    /\ stage' = "evaluated"
    /\ UNCHANGED <<wires, next_id, a, b, c, op, panic, call, bristol>>

NextBristol ==
    \/ Next
    \/ GenerateBristol
    \/ Eval

SpecBristol == Init /\ [][NextBristol]_vars

\* ------------------------------------------------------------ wires as outputs
\* generate_bristol on an output of two bits, any two of the wires that the
\* direct constructor calls made.
GenerateWire ==
    /\ stage = "wire"
    /\ \E x, y \in 1..Len(wires) :
           \E r \in {generate_bristol(G, "c", <<x, y>>)} :
               /\ wires' = r.g.wires
               /\ next_id' = r.g.next_id
               /\ bristol' = r.circuit
               /\ c' = <<x, y>>
    /\ stage' = "generated"
    /\ UNCHANGED <<a, b, op, panic, call, evaluated>>

NextWireBristol ==
    \/ NextWire
    \/ GenerateWire

SpecWireBristol == InitWire /\ [][NextWireBristol]_vars

\* ------------------------------------------------------------ eval alone
\* eval on any circuit: a one-bit input a at wire 0, a one-bit output c at
\* the last wire, and gates of any op over any wires.
Gates ==
    {Gate(o, <<x, y>>, <<z>>) :
        o \in {"AND", "XOR", "OR", "NAND"}, x, y, z \in 0..(MaxWires - 1)}
    \cup {Gate(o, <<x>>, <<z>>) : o \in {"NOT", "INV", "COPY"}, x, z \in 0..(MaxWires - 1)}

Circuits ==
    {[NoCircuit EXCEPT !.panic = "",
                       !.wire_count = MaxWires,
                       !.gates = gates,
                       !.input_name_to_wire_index = [n \in {"a"} |-> 0],
                       !.output_name_to_wire_index = [n \in {"c"} |-> MaxWires - 1],
                       !.input_widths = <<1>>,
                       !.output_widths = <<1>>] :
        gates \in UNION {[1..n -> Gates] : n \in 0..MaxGates}}

InitEval ==
    /\ wires = IdGenerator_new.wires
    /\ next_id = IdGenerator_new.next_id
    /\ a = <<>>
    /\ b = <<>>
    /\ c = <<>>
    /\ op = "none"
    /\ panic = FALSE
    /\ stage = "generated"
    /\ call = NoCall
    /\ bristol \in Circuits
    /\ evaluated = NotEvaluated

NextEval == Eval

SpecEval == InitEval /\ [][NextEval]_vars

\* ------------------------------------------------------------ resized constants
\* The widths a constant is resized to: the small ones and the first width
\* above that of a usize.
ResizeWidths == 0..MaxWidth \cup {UsizeBits + 1}

\* ValueWire::new_const(value, id_gen).resize(size), as the driver builds the
\* ValueWire of a constant of the arithmetic circuit; the width above that of
\* a usize is given to operand b alone.
NewConstResize ==
    /\ stage \in {"a", "b"}
    /\ \E value \in 0..MaxConst,
          size \in IF stage = "a" THEN 0..MaxWidth ELSE ResizeWidths :
           Operand(Bind(new_const(G, value), LAMBDA r : Value(r.g, resize(r.bits, size))))

\* The operations whose operand b must be a constant, on inputs, constants
\* and resized constants.
NextResize ==
    \/ NewInput
    \/ NewConst
    \/ NewConstResize
    \/ Clone
    \/ Exp
    \/ BitShl
    \/ BitShr

SpecResize == Init /\ [][NextResize]_vars

\* ------------------------------------------------------------ boolify
\* The types of the value of a constant of the arithmetic circuit: as_u64 is
\* Some for "number", as_bool is Some for "bool", both are None for "other".
ConstantTypes == {"number", "bool", "other"}

\* One turn of boolify's loop over the constants, the wire at the constant's
\* address being not assigned (<<>>) before it: first the two if let, then
\* the statement that ends the loop's body.
boolify_constant(g, type_, v, bit_width) ==
    Bind(IF type_ = "number" THEN resize(new_const(g, v).bits, bit_width) ELSE <<>>,
         LAMBDA numeric :
    Bind(IF type_ = "bool" THEN resize(new_const(g, IF v # 0 THEN 1 ELSE 0).bits, 1)
                           ELSE numeric,
         LAMBDA wire : [g |-> g, bits |-> wire, panic |-> TRUE]))

\* The next operand is the wire of a constant of the arithmetic circuit; call
\* records the constant: its type, its value x, bit_width y and the operand
\* w (1 for a, 2 for b) that is its wire.
BoolifyConstant ==
    /\ stage \in {"a", "b"}
    /\ \E type_ \in ConstantTypes, v \in 0..MaxConst, bit_width \in 0..MaxWidth :
           /\ type_ = "bool" => v \in {0, 1}
           /\ \E r \in {boolify_constant(G, type_, v, bit_width)} :
                  /\ wires' = r.g.wires
                  /\ next_id' = r.g.next_id
                  /\ panic' = r.panic
                  /\ IF stage = "a" THEN a' = r.bits /\ UNCHANGED b
                                    ELSE b' = r.bits /\ UNCHANGED a
                  /\ stage' = IF r.panic THEN "panic"
                              ELSE IF stage = "a" THEN "b" ELSE "op"
                  /\ call' = [name |-> type_, x |-> v, y |-> bit_width,
                              w |-> IF stage = "a" THEN 1 ELSE 2,
                              before |-> G, count |-> call.count + 1]
    /\ UNCHANGED <<c, op, bristol, evaluated>>

\* boolify: the inputs, the constants, one gate of the arithmetic circuit on
\* the wires a and b, and generate_bristol on the gate's output.
NextBoolify ==
    \/ NewInput
    \/ BoolifyConstant
    \/ Clone
    \/ Add
    \/ Sub
    \/ Negate
    \/ Mul
    \/ Exp
    \/ Div
    \/ Mod
    \/ BitNot
    \/ BitAnd
    \/ BitOr
    \/ BitXor
    \/ BitShl
    \/ BitShr
    \/ Equal
    \/ NotEqual
    \/ LessThan
    \/ GreaterThan
    \/ LessThanOrEq
    \/ GreaterThanOrEq
    \/ BoolAnd
    \/ BoolOr
    \/ BoolNot
    \/ GenerateBristol

SpecBoolify == Init /\ [][NextBoolify]_vars

\* ------------------------------------------------------------ gates in sequence
\* The next gate of the arithmetic circuit reads the wire the last gate wrote
\* and the last gate's first operand: a := c, b := a.  call counts the gates
\* that follow the first.
Chain ==
    /\ stage = "done"
    /\ ~panic
    /\ call.count < MaxCalls - 1
    /\ a' = c
    /\ b' = a
    /\ stage' = "op"
    /\ call' = [call EXCEPT !.count = @ + 1]
    /\ UNCHANGED <<wires, next_id, c, op, panic, bristol, evaluated>>

\* The bitwise gates in sequence, and generate_bristol on the last one's
\* output.
NextChain ==
    \/ NewInput
    \/ Clone
    \/ BitNot
    \/ BitAnd
    \/ BitXor
    \/ Chain
    \/ GenerateBristol

SpecChain == Init /\ [][NextChain]_vars

\* C1: for operand widths >= 1 and every input assignment, the bits of
\* add(a, b) read little-endian are (a + b) mod 2^W, W = max(|a|, |b|): the
\* carry out of the top bit is discarded.
AddWraps ==
    (Done("add") /\ Len(a) >= 1 /\ Len(b) >= 1) =>
        \A env \in Envs :
            LET v == WireValues(env)
            IN Num(c, v) = (Num(a, v) + Num(b, v)) % Pow2(W)

\* add of two inputs of different widths, with a carry out of the top bit.
AddWrapsWitness ==
    /\ Done("add")
    /\ Len(a) >= 2 /\ Len(b) >= 1 /\ Len(a) # Len(b)
    /\ InputSize("a") >= 2 /\ InputSize("b") >= 1
    /\ \E env \in Envs :
           LET v == WireValues(env)
           IN /\ Num(a, v) + Num(b, v) >= Pow2(W)
              /\ Num(c, v) = Num(a, v) + Num(b, v) - Pow2(W)


\* C2: for operand widths >= 1 (|b| < |a| and |b| > |a| included) and every
\* input assignment, sub(a, b) is (a - b) mod 2^W, W = max(|a|, |b|), and
\* negate(a) is (2^|a| - a) mod 2^|a|.
SubNegateWrap ==
    /\ (Done("sub") /\ Len(a) >= 1 /\ Len(b) >= 1) =>
           \A env \in Envs :
               LET v == WireValues(env)
               IN Num(c, v) = (Pow2(W) + Num(a, v) - Num(b, v)) % Pow2(W)
    /\ (Done("negate") /\ Len(a) >= 1) =>
           \A env \in Envs :
               LET v == WireValues(env)
               IN Num(c, v) = (Pow2(Len(a)) - Num(a, v)) % Pow2(Len(a))

\* sub of a narrower input a and a wider input b, with a < b.
SubNegateWrapWitness ==
    /\ Done("sub")
    /\ 1 <= Len(a) /\ Len(a) < Len(b)
    /\ InputSize("a") = Len(a) /\ InputSize("b") = Len(b)
    /\ \E env \in Envs :
           LET v == WireValues(env)
           IN /\ Num(a, v) < Num(b, v)
              /\ Num(c, v) = Pow2(W) + Num(a, v) - Num(b, v)

\* The power x^n.
RECURSIVE Pow(_, _)
Pow(x, n) == IF n = 0 THEN 1 ELSE x * Pow(x, n - 1)

\* C3: for operand widths >= 1 and every input assignment, mul(a, b) is
\* (a * b) mod 2^W, W = max(|a|, |b|), for inputs and for constants.
MulWraps ==
    (Done("mul") /\ Len(a) >= 1 /\ Len(b) >= 1) =>
        \A env \in Envs :
            LET v == WireValues(env)
            IN Num(c, v) = (Num(a, v) * Num(b, v)) % Pow2(W)

\* mul of a constant with a Const(false) bit (its term is skipped) and a wider
\* or equal input, with a product of more than W bits.
MulWrapsWitness ==
    /\ Done("mul")
    /\ Len(a) >= 2 /\ InputSize("b") = Len(b) /\ Len(b) > Len(a)
    /\ \E i \in 1..Len(a) : IsConstFalse(G, a[i])
    /\ \E i \in 1..Len(a) : IsConstTrue(G, a[i])
    /\ \E env \in Envs :
           LET v == WireValues(env)
           IN Num(a, v) * Num(b, v) >= Pow2(W)

\* C4: for every a, b in [0, 2^W): with b # 0, div(a, b) is floor(a / b) and
\* mod_(a, b) is a mod b; div(a, 0) is 2^W - 1 and mod_(a, 0) is a.
DivMod ==
    /\ Done("div") =>
           \A env \in Envs :
               LET v == WireValues(env)
               IN Num(c, v) = IF Num(b, v) # 0 THEN Num(a, v) \div Num(b, v)
                              ELSE Pow2(W) - 1
    /\ Done("mod_") =>
           \A env \in Envs :
               LET v == WireValues(env)
               IN Num(c, v) = IF Num(b, v) # 0 THEN Num(a, v) % Num(b, v)
                              ELSE Num(a, v)

\* div of two inputs of two bits or more: one assignment with a quotient of
\* 2 or more, and one with b = 0.
DivModWitness ==
    /\ Done("div")
    /\ InputSize("a") = Len(a) /\ InputSize("b") = Len(b)
    /\ Len(a) >= 2 /\ Len(b) >= 2
    /\ \E env \in Envs :
           LET v == WireValues(env)
           IN Num(b, v) >= 2 /\ Num(c, v) >= 2 /\ Num(a, v) % Num(b, v) # 0
    /\ \E env \in Envs :
           LET v == WireValues(env)
           IN Num(b, v) = 0 /\ Num(c, v) = Pow2(W) - 1

\* C5 as stated: with b = 0 every apply bit of quotient_remainder (the
\* quotient's bits) is false, so div(a, 0) = 0, and mod_(a, 0) = a.
DivByZeroIsZero ==
    /\ Done("div") =>
           \A env \in Envs :
               LET v == WireValues(env)
               IN Num(b, v) = 0 => \A i \in 1..Len(c) : ~v[c[i]]
    /\ Done("mod_") =>
           \A env \in Envs :
               LET v == WireValues(env)
               IN Num(b, v) = 0 => Num(c, v) = Num(a, v)

\* C5, amended: with b = 0 every apply bit of quotient_remainder (the
\* quotient's bits, W of them) is true, so div(a, 0) is all ones, and
\* mod_(a, 0) = a.
DivByZeroAllOnes ==
    /\ Done("div") =>
           /\ Len(c) = W
           /\ \A env \in Envs :
                  LET v == WireValues(env)
                  IN Num(b, v) = 0 => \A i \in 1..Len(c) : v[c[i]]
    /\ Done("mod_") =>
           \A env \in Envs :
               LET v == WireValues(env)
               IN Num(b, v) = 0 => Num(c, v) = Num(a, v)

\* div by an input b that is assigned 0, a an input of two bits or more.
DivByZeroWitness ==
    /\ Done("div")
    /\ InputSize("a") = Len(a) /\ InputSize("b") = Len(b)
    /\ Len(a) >= 2 /\ Len(b) >= 1
    /\ \E env \in Envs :
           LET v == WireValues(env)
           IN Num(b, v) = 0 /\ Num(a, v) # 0 /\ \A i \in 1..Len(c) : v[c[i]]

\* The one wire of a comparison or boolean result.
Bool(v) == v[c[1]]

\* C6: for operand widths >= 1 and every input assignment, equal, not_equal,
\* less_than, greater_than, less_than_or_eq, greater_than_or_eq are 1 exactly
\* when a = b, a # b, a < b, a > b, a <= b, a >= b.
Comparisons ==
    (stage = "done" /\ Len(a) >= 1 /\ Len(b) >= 1) =>
        \A env \in Envs :
            LET v == WireValues(env)
                x == Num(a, v)
                y == Num(b, v)
            IN /\ op = "equal" => (Bool(v) <=> x = y)
               /\ op = "not_equal" => (Bool(v) <=> x # y)
               /\ op = "less_than" => (Bool(v) <=> x < y)
               /\ op = "greater_than" => (Bool(v) <=> x > y)
               /\ op = "less_than_or_eq" => (Bool(v) <=> x <= y)
               /\ op = "greater_than_or_eq" => (Bool(v) <=> x >= y)

\* greater_than of two inputs of different widths, of two bits or more: it is
\* 1 under one assignment, 0 under another with a < b, 0 under one with a = b.
ComparisonsWitness ==
    /\ Done("greater_than")
    /\ InputSize("a") = Len(a) /\ InputSize("b") = Len(b)
    /\ Len(a) >= 2 /\ Len(b) >= 2 /\ Len(a) # Len(b)
    /\ \E env \in Envs : LET v == WireValues(env) IN Bool(v) /\ Num(a, v) > Num(b, v)
    /\ \E env \in Envs : LET v == WireValues(env) IN ~Bool(v) /\ Num(a, v) < Num(b, v)
    /\ \E env \in Envs : LET v == WireValues(env) IN ~Bool(v) /\ Num(a, v) = Num(b, v)

\* C7: for a of width >= 1 and every constant shift amount k (k >= |a|
\* included), bit_shl(a, k) is (a << k) mod 2^|a| and bit_shr(a, k) is
\* floor(a / 2^k).
Shifts ==
    /\ (Done("bit_shl") /\ Len(a) >= 1) =>
           \A env \in Envs :
               LET v == WireValues(env)
               IN Num(c, v) = (Num(a, v) * Pow2(as_usize(G, b))) % Pow2(Len(a))
    /\ (Done("bit_shr") /\ Len(a) >= 1) =>
           \A env \in Envs :
               LET v == WireValues(env)
               IN Num(c, v) = Num(a, v) \div Pow2(as_usize(G, b))

\* bit_shl of an input by a constant 1 <= k < |a|, a set bit shifted out and
\* a set bit kept.
ShiftsWitness ==
    /\ Done("bit_shl")
    /\ InputSize("a") = Len(a)
    /\ as_usize(G, b) >= 1 /\ as_usize(G, b) < Len(a)
    /\ \E env \in Envs :
           LET v == WireValues(env)
           IN /\ Num(a, v) * Pow2(as_usize(G, b)) > Pow2(Len(a))
              /\ Num(c, v) # 0

\* C8: for a of width W >= 1 and every constant exponent n, exp(a, n) is
\* a^n mod 2^W.
ExpWraps ==
    (Done("exp") /\ Len(a) >= 1) =>
        \A env \in Envs :
            LET v == WireValues(env)
            IN Num(c, v) = Pow(Num(a, v), as_usize(G, b)) % Pow2(Len(a))

\* exp of an input of two bits or more to an odd exponent n >= 3, with a^n of
\* more than W bits and a result that is not 0.
ExpWrapsWitness ==
    /\ Done("exp")
    /\ InputSize("a") = Len(a) /\ Len(a) >= 2
    /\ as_usize(G, b) >= 3 /\ as_usize(G, b) % 2 = 1
    /\ \E env \in Envs :
           LET v == WireValues(env)
           IN /\ Pow(Num(a, v), as_usize(G, b)) >= Pow2(Len(a))
              /\ Num(c, v) > 1

\* Bit i (from 0) of a ValueWire, Const(false) past its width.
BitAt(bits, i, v) == i < Len(bits) /\ v[bits[i + 1]]

\* C9: for all operand widths and every input assignment, bit i of bit_and,
\* bit_or, bit_xor is a_i AND b_i, a_i OR b_i, a_i XOR b_i for every
\* i < max(|a|, |b|) (the shorter operand padded with Const(false)), and bit
\* i of bit_not(a) is NOT a_i.
Bitwise ==
    /\ (stage = "done" /\ op \in {"bit_and", "bit_or", "bit_xor"}) =>
           /\ Len(c) = W
           /\ \A env \in Envs :
                  LET v == WireValues(env) IN
                  \A i \in 0..(W - 1) :
                      LET x == BitAt(a, i, v)
                          y == BitAt(b, i, v)
                      IN /\ op = "bit_and" => (v[c[i + 1]] <=> (x /\ y))
                         /\ op = "bit_or" => (v[c[i + 1]] <=> (x \/ y))
                         /\ op = "bit_xor" => (v[c[i + 1]] <=> (x # y))
    /\ Done("bit_not") =>
           /\ Len(c) = Len(a)
           /\ \A env \in Envs :
                  LET v == WireValues(env) IN
                  \A i \in 0..(Len(a) - 1) : v[c[i + 1]] <=> ~BitAt(a, i, v)

\* bit_xor of two inputs of different widths: a bit of the result past the
\* shorter operand is 1, and a bit where both operands are 1 is 0.
BitwiseWitness ==
    /\ Done("bit_xor")
    /\ InputSize("a") = Len(a) /\ InputSize("b") = Len(b)
    /\ 1 <= Len(a) /\ Len(a) < Len(b)
    /\ \E env \in Envs :
           LET v == WireValues(env)
           IN /\ v[c[Len(b)]]
              /\ BitAt(a, 0, v) /\ BitAt(b, 0, v) /\ ~v[c[1]]

\* C10: for every value of any width and every input assignment, to_bool(v)
\* is 1 exactly when v # 0 (0 for a zero-width value), and bool_and, bool_or,
\* bool_xor, bool_not are the AND, OR, XOR, NOT of the to_bool of their
\* operands.
Booleans ==
    stage = "done" =>
        \A env \in Envs :
            LET v == WireValues(env)
                x == Num(a, v) # 0
                y == Num(b, v) # 0
            IN /\ op = "to_bool" => (Bool(v) <=> x)
               /\ op = "bool_and" => (Bool(v) <=> (x /\ y))
               /\ op = "bool_or" => (Bool(v) <=> (x \/ y))
               /\ op = "bool_xor" => (Bool(v) <=> (x # y))
               /\ op = "bool_not" => (Bool(v) <=> ~x)

\* bool_xor of an input of three bits or more and an input: it is 1 when
\* only the top bit of a is set and b = 0, and 0 when both are not 0.
BooleansWitness ==
    /\ Done("bool_xor")
    /\ InputSize("a") = Len(a) /\ InputSize("b") = Len(b)
    /\ Len(a) >= 3 /\ Len(b) >= 1
    /\ \E env \in Envs :
           LET v == WireValues(env)
           IN Num(a, v) = Pow2(Len(a) - 1) /\ Num(b, v) = 0 /\ Bool(v)
    /\ \E env \in Envs :
           LET v == WireValues(env)
           IN Num(a, v) # 0 /\ Num(b, v) # 0 /\ ~Bool(v)

\* The children of a node that are not constants.
Children(i) == {k \in {wires[i].a, wires[i].b} \ {0} : ~IsConst(G, k)}

\* C17: after any sequence of calls of new_input, and, or, xor, inv,
\* inv_with_new_id and copy_with_new_id on one IdGenerator, every And, Xor
\* and Inv node has an id strictly greater than the id of each of its direct
\* children that is not a constant.
ChildIdsBelow ==
    \A i \in 1..Len(wires) :
        wires[i].tag \in {"And", "Xor", "Inv"} =>
            \A k \in Children(i) : wires[k].id < wires[i].id

\* inv was called directly on a wire that is not a constant.
InvCalled == stage = "wire" /\ call.name = "inv" /\ ~IsConst(call.before, call.x)

\* C18 as stated: for every wire x that is not a constant (an Input, And, Xor
\* or Inv node), inv(inv(x)) returns the node x itself.
InvInvIsSelf == InvCalled => inv(G, call.w).w = call.x

\* C18 amended: for every Input, And and Xor node x, inv(x) is a new Inv node
\* and inv(inv(x)) returns the node x itself, creating nothing; for an Inv
\* node x = Inv(_, y), inv(x) returns y and inv(inv(x)) = inv(y) is a node
\* other than x.
InvInvOfNonInv ==
    InvCalled =>
        IF call.before.wires[call.x].tag = "Inv"
        THEN /\ call.w = call.before.wires[call.x].a
             /\ inv(G, call.w).w # call.x
        ELSE /\ call.w = Len(call.before.wires) + 1
             /\ wires[call.w] = InvNode(call.before.next_id, call.x)
             /\ inv(G, call.w) = Keep(G, call.x)

InvInvWitness ==
    /\ InvCalled
    /\ call.before.wires[call.x].tag = "And"
    /\ wires[call.w].tag = "Inv"
    /\ inv(G, call.w).w = call.x

\* The last direct call took a simplification branch: an operand of and, or,
\* xor is a Const, or the operand of inv is a Const or an Inv node.
Simplifies ==
    /\ stage = "wire"
    /\ \/ /\ call.name \in {"and", "or", "xor"}
          /\ IsConst(call.before, call.x) \/ IsConst(call.before, call.y)
       \/ /\ call.name = "inv"
          /\ call.before.wires[call.x].tag \in {"Const", "Inv"}

\* The operand that xor hands to inv when the other one is Const(true), and
\* 0 when xor does not call inv.
XorInverts ==
    IF call.name # "xor" THEN 0
    ELSE IF IsConstTrue(call.before, call.x) THEN call.y
    ELSE IF IsConstFalse(call.before, call.x) THEN 0
    ELSE IF IsConstTrue(call.before, call.y) THEN call.x
    ELSE 0

\* and(x, Const(true)) and xor(Const(false), x) return x itself.
ReturnsOperand ==
    /\ (call.name = "and" /\ IsConstTrue(call.before, call.y)
           /\ ~IsConst(call.before, call.x)) => call.w = call.x
    /\ (call.name = "xor" /\ IsConstFalse(call.before, call.x)) => call.w = call.y

\* C19 as stated: whenever and, or, xor or inv takes a simplification branch,
\* the IdGenerator counter is left unchanged and the result is an existing
\* node or a Const; and(x, Const(true)) and xor(Const(false), x) return x.
SimplificationKeepsCounter ==
    Simplifies =>
        /\ next_id = call.before.next_id
        /\ call.w \in 1..Len(call.before.wires)
        /\ ReturnsOperand

\* C19 amended: a simplification branch leaves the counter and the graph
\* unchanged and returns an existing node or a Const, and(x, Const(true)) and
\* xor(Const(false), x) returning x, except xor with a Const(true) operand
\* and an Input, And or Xor node x as the other: that returns inv(x), a new
\* Inv node over x whose id advances the counter by one.
SimplificationExceptXorTrue ==
    Simplifies =>
        IF XorInverts # 0 /\ call.before.wires[XorInverts].tag \in {"Input", "And", "Xor"}
        THEN /\ next_id = call.before.next_id + 1
             /\ wires = Append(call.before.wires, InvNode(call.before.next_id, XorInverts))
             /\ call.w = Len(wires)
        ELSE /\ G = call.before
             /\ call.w \in 1..Len(call.before.wires)
             /\ ReturnsOperand

SimplificationWitness ==
    /\ Simplifies
    /\ call.name = "xor"
    /\ call.x = ConstTrue
    /\ call.before.wires[call.y].tag = "Input"
    /\ wires[call.w] = InvNode(call.before.next_id, call.y)

\* The integer whose bit width - 1 - j is bit j of v: v read from the other end.
RECURSIVE Reverse(_, _)
Reverse(v, width) ==
    IF width = 0 THEN 0
    ELSE (IF BitOf(v, 0) THEN Pow2(width - 1) ELSE 0) + Reverse(v \div 2, width - 1)

\* The assignment under which bit j of each input ValueWire, the Input node
\* of id id_start + j, is bit j of the integer given for its name.
LittleEndian(inputs) ==
    [n \in {"a", "b"} |->
        IF n \in DOMAIN inputs THEN Reverse(inputs[n], InputSize(n)) ELSE 0]

\* eval was called with a value within the width of every input of the circuit.
ValidInputs ==
    /\ stage = "evaluated"
    /\ DOMAIN evaluated.inputs = DOMAIN bristol.input_name_to_wire_index
    /\ \A n \in DOMAIN evaluated.inputs : evaluated.inputs[n] < Pow2(InputSize(n))

\* C11: eval(generate_bristol(outputs), assignment) returns, for each output,
\* the little-endian integer value that its ValueWire takes when each input
\* ValueWire holds the assigned integer in little-endian order.
RoundTrip ==
    ValidInputs =>
        /\ evaluated.panic = ""
        /\ evaluated.outputs =
               [n \in {"c"} |-> Num(c, WireValues(LittleEndian(evaluated.inputs)))]

\* generate_bristol returned a circuit for the output c.
Generated == stage = "generated" /\ bristol.panic = ""

\* The id_start of the named input.
InputStart(name) ==
    CHOOSE x \in {wires[i].input.id_start :
                    i \in {j \in 1..Len(wires) :
                             wires[j].tag = "Input" /\ wires[j].input.name = name}} : TRUE

\* The sum of the first k widths.
RECURSIVE SumWidths(_, _)
SumWidths(widths, k) == IF k = 0 THEN 0 ELSE widths[k] + SumWidths(widths, k - 1)

\* C12: in the circuit generate_bristol returns, the input bits occupy the
\* ids [0, I) contiguously in id_start order, and the output bits occupy
\* exactly the O highest ids [wire_count - O, wire_count), one distinct id
\* per output bit in output order, also when an output bit is a constant, is
\* an input bit, or is the same wire as another output bit.
IoLayout ==
    Generated =>
        LET names == sort_by_wire_index(bristol.input_name_to_wire_index)
            O == Len(c)
        IN /\ Len(names) = Len(bristol.input_widths)
           /\ \A k \in 1..Len(names) :
                  /\ bristol.input_name_to_wire_index[names[k]]
                         = SumWidths(bristol.input_widths, k - 1)
                  /\ bristol.input_widths[k] = InputSize(names[k])
                  /\ \A j \in 1..(k - 1) : InputStart(names[j]) < InputStart(names[k])
                  /\ \A i \in 0..(InputSize(names[k]) - 1) :
                         bristol.map[InputStart(names[k]) + i]
                             = bristol.input_name_to_wire_index[names[k]] + i
           /\ SumWidths(bristol.input_widths, Len(names)) + O <= bristol.wire_count
           /\ Len(bristol.bits) = O
           /\ bristol.output_widths = <<O>>
           /\ bristol.output_name_to_wire_index["c"] = bristol.wire_count - O
           /\ \A j \in 1..O :
                  bristol.map[BoolWire_id(G, bristol.bits[j])]
                      = bristol.wire_count - O + (j - 1)

\* An output with a constant bit, an input bit and the same wire twice.
IoLayoutWitness ==
    /\ Generated
    /\ \E j \in 1..Len(c) : IsConst(G, c[j])
    /\ \E j \in 1..Len(c) : wires[c[j]].tag = "Input"
    /\ \E i, j \in 1..Len(c) : i # j /\ c[i] = c[j]

\* C13: in every circuit returned by generate_bristol, every gate's
\* output wire id is strictly greater than each of its input wire ids,
\* including gates whose input is a wire that is also an output bit.
GateIdsIncrease ==
    Generated =>
        \A k \in 1..Len(bristol.gates) :
            \A i \in 1..Len(bristol.gates[k].inputs) :
                bristol.gates[k].inputs[i] < bristol.gates[k].outputs[1]

\* C14: every gate of a circuit returned by generate_bristol has op AND, XOR
\* or INV: negations are emitted as INV, and no OR, NOT or COPY gate is ever
\* emitted.
GateOps ==
    Generated =>
        \A k \in 1..Len(bristol.gates) : bristol.gates[k].op \in {"AND", "XOR", "INV"}

\* The sum of wires_[address + j] << j for j < width.
RECURSIVE LsbFirstValue(_, _, _)
LsbFirstValue(wires_, address, width) ==
    IF width = 0 THEN 0
    ELSE (IF wires_[address] THEN 1 ELSE 0) + 2 * LsbFirstValue(wires_, address + 1, width - 1)

\* C15: eval lays out each input least-significant bit first: for an input
\* of width W at address A with value v, wire[A + j] = (v >> j) & 1 for every
\* j in [0, W), and each output is reassembled as the sum of wire[A + j] << j.
EvalLsbFirst ==
    (ValidInputs /\ evaluated.panic = "") =>
        /\ \A n \in DOMAIN evaluated.inputs :
               \A j \in 0..(InputSize(n) - 1) :
                   evaluated.wires[bristol.input_name_to_wire_index[n] + j]
                       = BitOf(evaluated.inputs[n], j)
        /\ \A n \in DOMAIN evaluated.outputs :
               evaluated.outputs[n] =
                   LsbFirstValue(evaluated.wires, bristol.output_name_to_wire_index[n],
                                 bristol.output_widths[1])

\* The names of the inputs of the circuit, by wire index, as eval sorts them.
InputNames == sort_by_wire_index(bristol.input_name_to_wire_index)

\* A declared input has no value in the assignment.
MissingInput == \E n \in DOMAIN bristol.input_name_to_wire_index : n \notin DOMAIN evaluated.inputs

\* An input value is >= 2^width.
InputTooLarge ==
    \E k \in 1..Len(InputNames) :
        /\ InputNames[k] \in DOMAIN evaluated.inputs
        /\ evaluated.inputs[InputNames[k]] >= Pow2(bristol.input_widths[k])

\* A gate has an op that is none of the gate names of the repository.
UnknownOp ==
    \E k \in 1..Len(bristol.gates) :
        bristol.gates[k].op \notin {"AND", "XOR", "INV", "NOT", "OR", "COPY"}

\* The wires set by an input or by one of the first k gates.
SetWires(k) ==
    UNION {bristol.input_name_to_wire_index[InputNames[i]]
               ..(bristol.input_name_to_wire_index[InputNames[i]]
                      + bristol.input_widths[i] - 1) : i \in 1..Len(InputNames)}
    \cup {bristol.gates[j].outputs[1] : j \in 1..k}

\* A gate or an output reads a wire that no input and no earlier gate set.
ReadsUnsetWire ==
    \/ \E k \in 1..Len(bristol.gates) :
           \E i \in 1..Len(bristol.gates[k].inputs) :
               bristol.gates[k].inputs[i] \notin SetWires(k - 1)
    \/ \E j \in 0..(bristol.output_widths[1] - 1) :
           bristol.output_name_to_wire_index["c"] + j \notin SetWires(Len(bristol.gates))

\* C16: eval is strict: it fails (never returns outputs) when a declared
\* input has no value in the assignment, when an input value is >= 2^width,
\* when a gate has an op it does not know, and when a gate or an output reads
\* a wire that was never set by an input or an earlier gate.
EvalStrict ==
    (stage = "evaluated"
        /\ (MissingInput \/ InputTooLarge \/ UnknownOp \/ ReadsUnsetWire))
        => evaluated.panic # ""

\* The output c has an input below one of its bits.
HasReachableInput == collect_inputs(G, c) # {}

NewInputCalled ==
    /\ stage \in {"a", "b"}
    /\ LET bits == IF stage = "a" THEN a' ELSE b'
       IN /\ Len(wires') = Len(wires) + Len(bits)
          /\ \A i \in 1..Len(bits) : wires'[bits[i]].tag = "Input"

\* new_input records id_start as the counter before the call and draws width
\* ids from it.
NewInputRange ==
    LET bits == IF stage = "a" THEN a' ELSE b'
    IN /\ next_id' = next_id + Len(bits)
       /\ \A i \in 1..Len(bits) :
              /\ wires'[bits[i]].input.id_start = next_id
              /\ wires'[bits[i]].input.size = Len(bits)

\* C21 (as stated): new_input records id_start as the counter before the
\* call, consumes the width ids id_start .. id_start + width - 1 and gives bit
\* i (bit 0 least significant) the id id_start + width - 1 - i.
NewInputIdsMsbFirst ==
    [][NewInputCalled =>
         /\ NewInputRange
         /\ LET bits == IF stage = "a" THEN a' ELSE b'
            IN \A i \in 0..(Len(bits) - 1) :
                   wires'[bits[i + 1]].id = next_id + Len(bits) - 1 - i]_vars

\* C21 (amended): new_input records id_start as the counter before the
\* call, consumes the width ids id_start .. id_start + width - 1 and gives bit
\* i (bit 0 least significant) the id id_start + i.
NewInputIdsLsbFirst ==
    [][NewInputCalled =>
         /\ NewInputRange
         /\ LET bits == IF stage = "a" THEN a' ELSE b'
            IN \A i \in 0..(Len(bits) - 1) :
                   wires'[bits[i + 1]].id = next_id + i]_vars

\* Both operands are inputs of the largest width: b was created with the
\* counter at MaxWidth.
NewInputIdsWitness ==
    /\ stage = "op"
    /\ Len(a) = MaxWidth
    /\ Len(b) = MaxWidth
    /\ \A i \in 1..MaxWidth : wires[a[i]].tag = "Input" /\ wires[b[i]].tag = "Input"
    /\ wires[b[1]].input.id_start = MaxWidth

\* C22: bit_shl, bit_shr and exp fail whenever at least one bit of operand b
\* is not a Const and succeed whenever every bit of b is a Const (the
\* zero-width constant 0 included).
ConstAmount ==
    (stage = "done" /\ op \in {"bit_shl", "bit_shr", "exp"}) =>
        (panic <=> \E i \in 1..Len(b) : ~IsConst(G, b[i]))

\* C23: boolify handles a numeric constant v by setting its wire to
\* new_const(v).resize(bit_width) and a boolean constant by setting it to
\* new_const(0 or 1).resize(1), and goes on compiling; it fails only for a
\* constant that is neither.
ConstantsByType ==
    call.name \in ConstantTypes =>
        LET wire == IF call.w = 1 THEN a ELSE b
        IN /\ panic <=> call.name = "other"
           /\ call.name = "number" => wire = resize(new_const_bits(call.x), call.y)
           /\ call.name = "bool" => wire = resize(new_const_bits(call.x), 1)

\* The operand of mul with the fewer bits (a when the widths are equal), whose
\* bits select the partial products.
Smaller == IF Len(a) <= Len(b) THEN a ELSE b

\* C24 (as stated): add, sub, mul, bit_and, bit_or, bit_xor, div and mod_
\* return exactly max(|a|, |b|) bits, and bit_shl and bit_shr (shift_up_const,
\* shift_down_const) return exactly |a| bits for every amount, for operands of
\* every width >= 0.
ResultWidths ==
    /\ (\E name \in {"add", "sub", "mul", "bit_and", "bit_or", "bit_xor", "div", "mod_"} :
           Done(name)) => Len(c) = W
    /\ (Done("bit_shl") \/ Done("bit_shr")) => Len(c) = Len(a)

\* C24 (amended): bit_and, bit_or, bit_xor, div and mod_ return max(|a|, |b|)
\* bits; add and sub return max(|a|, |b|, 1) bits; mul returns max(|a|, |b|)
\* bits when some bit of its smaller operand is not Const(false) and no bit
\* otherwise; bit_shl and bit_shr return |a| bits for an amount below |a| and
\* no bit for an amount of |a| or more.
ResultWidthsByCase ==
    /\ (\E name \in {"bit_and", "bit_or", "bit_xor", "div", "mod_"} : Done(name)) =>
           Len(c) = W
    /\ (Done("add") \/ Done("sub")) => Len(c) = Max(W, 1)
    /\ Done("mul") =>
           Len(c) = IF \E i \in 1..Len(Smaller) : ~IsConstFalse(G, Smaller[i]) THEN W ELSE 0
    /\ (Done("bit_shl") \/ Done("bit_shr")) =>
           Len(c) = IF as_usize(G, b) < Len(a) THEN Len(a) ELSE 0

\* An input of the largest width shifted down by a smaller amount that is
\* not 0: the result has the width of the input.
ResultWidthsWitness ==
    /\ Done("bit_shr")
    /\ Len(a) = MaxWidth
    /\ wires[a[1]].tag = "Input"
    /\ as_usize(G, b) > 0
    /\ as_usize(G, b) < MaxWidth
    /\ Len(c) = MaxWidth

\* The nodes of the graph reachable from the output bits of the circuit.
Reachable ==
    collect_inputs_visit(G, 1, Len(wires), {bristol.bits[j] : j \in 1..Len(bristol.bits)})

\* The gates of the circuit whose output is the wire id.
GatesOf(id) == {k \in 1..Len(bristol.gates) : bristol.gates[k].outputs = <<id>>}

\* C25: generate_gates emits exactly one gate for each node reachable from
\* an output bit that is not an input, none for another node and none twice,
\* each gate after the gates that produce its inputs; every id in
\* [0, wire_count) is an input bit or the output of exactly one gate, and
\* wire_count is the number of input bits plus the number of gates.
GatesOnceInOrder ==
    Generated =>
        LET I == SumWidths(bristol.input_widths, Len(bristol.input_widths))
            nodes == {n \in Reachable : wires[n].tag # "Input"}
        IN /\ \A n \in nodes : Cardinality(GatesOf(bristol.map[wires[n].id])) = 1
           /\ Len(bristol.gates) = Cardinality({wires[n].id : n \in nodes})
           /\ \A k \in 1..Len(bristol.gates) :
                  \A i \in 1..Len(bristol.gates[k].inputs) :
                      \/ bristol.gates[k].inputs[i] < I
                      \/ \E j \in 1..(k - 1) :
                             bristol.gates[j].outputs = <<bristol.gates[k].inputs[i]>>
           /\ \A id \in 0..(bristol.wire_count - 1) :
                  Cardinality(GatesOf(id)) = IF id < I THEN 0 ELSE 1
           /\ bristol.wire_count = I + Len(bristol.gates)

\* C26: across a whole compilation (wire construction, then
\* generate_bristol) the ids are unique: every id was returned by gen once, so
\* it lies below the counter, and no two distinct nodes that are not
\* constants carry the same id, the nodes generate_bristol creates included.
IdsUnique ==
    /\ \A i \in 1..Len(wires) :
           wires[i].tag # "Const" => wires[i].id \in 0..(next_id - 1)
    /\ \A i, j \in 1..Len(wires) :
           (i # j /\ wires[i].tag # "Const" /\ wires[j].tag # "Const") =>
               wires[i].id # wires[j].id
====
